---- MODULE Spec2Model ----
(***************************************************************************)
(* Model of lib/services/LoggerService.ts: the LoggerService facade, its   *)
(* initializer (init), its location resolver (getCallerLocation) and its   *)
(* dispatcher (log) with the five public level methods.                    *)
(*                                                                         *)
(* Strings are sequences of tokens.  A token is a maximal piece of text    *)
(* that no regular expression of the source looks into: a path separator,  *)
(* a path segment, a scheme such as "https:", a bracket, a blank.  The     *)
(* string is the concatenation of its tokens, so <<"src", "/", "a.ts">>    *)
(* is "src/a.ts".  An optional string (from?: string) is a sequence of at  *)
(* most one string: <<>> is undefined and <<s>> is the string s.           *)
(***************************************************************************)
EXTENDS Integers, Sequences, FiniteSets, TLC

\* ------------------------------------------------------------------ bounds
\* Facade instances that may be constructed in one process.
MaxInst == 2
\* Asynchronous calls (init invocations and log calls) started in one run.
MaxOps == 3

Inst == 1..MaxInst

\* ------------------------------------------------------------ text helpers
Undefined == <<>>
Some(s) == <<s>>
EmptyString == <<>>

\* JavaScript truthiness of an optional string: undefined and "" are falsy.
Truthy(from) == from # Undefined /\ from[1] # EmptyString

\* String.prototype.replace(/^p/, ""): drop the prefix p when s starts with it.
StripPrefix(s, p) ==
    IF Len(s) >= Len(p) /\ SubSeq(s, 1, Len(p)) = p
    THEN SubSeq(s, Len(p) + 1, Len(s))
    ELSE s

SetMax(S) == CHOOSE m \in S : \A k \in S : k <= m

\* Decimal digits of a positive integer, as `${n}` prints them.
RECURSIVE Dec(_)
Dec(n) ==
    LET d == <<"0", "1", "2", "3", "4", "5", "6", "7", "8", "9">>[(n % 10) + 1]
    IN  IF n < 10 THEN <<d>> ELSE Dec(n \div 10) \o <<d>>

\* String.prototype.toUpperCase on the level strings of the model.
toUpperCase(level) ==
    CASE level = "info"  -> "INFO"
      [] level = "warn"  -> "WARN"
      [] level = "error" -> "ERROR"
      [] level = "debug" -> "DEBUG"
      [] level = "trace" -> "TRACE"
      [] level = "log"   -> "LOG"
      [] level = "verbose" -> "VERBOSE"
      [] level = "toString" -> "TOSTRING"
      [] level = "__proto__" -> "__PROTO__"

\* ------------------------------------------------- path normalization
Sep == {"/", "\\"}
KnownDirs == {"app", "src", "components", "lib", "hooks", "constants", "types"}

WebpackDotPrefix == <<"webpack-internal:", "/", "/", "/", ".", "/">>
WebpackPrefix == <<"webpack-internal:", "/", "/", "/">>
FilePrefix == <<"file:", "/", "/">>
ChunksPrefix == <<"/", "_next", "/", "static", "/", "chunks", "/">>

\* The three chained .replace calls, applied in the order of the source.
CleanPrefixes(s) ==
    StripPrefix(StripPrefix(StripPrefix(s, WebpackDotPrefix), WebpackPrefix), FilePrefix)

\* Tokens whose text begins with the four characters "http".
HttpInitial == {"http:", "https:", "http-server"}
startsWithHttp(s) == Len(s) > 0 /\ s[1] \in HttpInitial

\* new URL(s) succeeds on scheme://host[path]; anything else makes it throw.
UrlParses(s) ==
    /\ Len(s) >= 4
    /\ s[1] \in {"http:", "https:"}
    /\ s[2] = "/" /\ s[3] = "/"
    /\ s[4] \notin Sep

\* URL.pathname: what follows the host, "/" when nothing does; the URL parser
\* turns a backslash of an http(s) URL into a slash.
pathname(s) ==
    LET rest == SubSeq(s, 5, Len(s))
    IN  IF rest = <<>> THEN <<"/">>
        ELSE [k \in 1..Len(rest) |-> IF rest[k] = "\\" THEN "/" ELSE rest[k]]

\* if (fileName.startsWith("http")) { try { ... } catch {} }
UrlStepM(s) == s
UrlStep(s) ==
    IF startsWithHttp(s)
    THEN IF UrlParses(s) THEN StripPrefix(pathname(s), ChunksPrefix) ELSE s
    ELSE s

\* fileName.match(/.*[/\\]((?:app|src|...)[/\\].*)/): the leading .* is greedy,
\* so the capture starts at the LAST known directory that stands between two
\* separators; without such a directory the name is kept.
DirStarts(s) ==
    {k \in 1..Len(s) : k + 2 <= Len(s) /\ s[k] \in Sep /\ s[k + 1] \in KnownDirs
                                       /\ s[k + 2] \in Sep}
RootRelative(s) ==
    IF DirStarts(s) = {} THEN s
    ELSE SubSeq(s, SetMax(DirStarts(s)) + 1, Len(s))

NormalizeFileName(s) == RootRelative(UrlStep(CleanPrefixes(s)))

\* ------------------------------------------------------------ input domains
Levels == {"info", "warn", "error", "debug", "trace"}

Saved == <<"Saved">>
DiskFull == <<"Disk", " ", "full">>
ProfileForm == <<"profile-form">>
FooTs12 == <<"foo.ts:12">>
Unknown == <<"unknown">>

ButtonRef == <<"webpack-internal:", "/", "/", "/", ".", "/", "components", "/", "Button.tsx">>
UseAuthRef ==
    <<"file:", "/", "/", "/", "home", "/", "user", "/", "project", "/", "src", "/",
      "hooks", "/", "useAuth.ts">>
PageRef ==
    <<"https:", "/", "/", "app.example", "/", "_next", "/", "static", "/", "chunks", "/",
      "app", "/", "page.js">>
ReactRef == <<"https:", "/", "/", "cdn.example", "/", "vendor", "/", "react.js">>
LayerRef ==
    <<"webpack-internal:", "/", "/", "/", "(app-pages-browser)", "/", ".", "/", "app", "/",
      "page.tsx">>
WindowsRef == <<"C:", "\\", "proj", "\\", "src", "\\", "main.ts">>
HttpDirRef == <<"http-server", "/", "src", "/", "x.ts">>
PlainRef == <<"/", "opt", "/", "build", "/", "util.js">>
NoFileName == <<>>

\* Inputs of the runs with several concurrent calls.
FewLevels == {"info", "error"}
FewMessages == {Saved}
FewLabels == {Undefined, Some(ProfileForm)}
FewSites == {[fileName |-> ButtonRef, lineNumber |-> 12]}
FewDepths == {5}

\* Inputs of the runs that study one log call.
AllMessages == {Saved, DiskFull}
AllLabels == {Undefined, Some(EmptyString), Some(ProfileForm), Some(FooTs12)}
AllFileNames ==
    {ButtonRef, UseAuthRef, PageRef, ReactRef, LayerRef, WindowsRef, HttpDirRef, PlainRef,
     NoFileName}
AllSites == [fileName : AllFileNames, lineNumber : {0, 12}]
AllDepths == {0, 3, 4, 5}

Answers == {"ok", "reject", "throw"}
NoSite == [fileName |-> NoFileName, lineNumber |-> 0]

\* -------------------------------------------------------------------- state
VARIABLES
    isDev,        \* the build mode is development (process.env.NODE_ENV)
    hasWindow,    \* typeof window !== "undefined"
    constructed,  \* constructed[i]: new LoggerService() has run for instance i
    initialized,  \* initialized[i]: the private field of instance i
    inits,        \* the init() invocations started so far, in start order
    logs,         \* the public level method calls started so far, in start order
    requests      \* the commands issued through invoke(), in issue order

vars == <<isDev, hasWindow, constructed, initialized, inits, logs, requests>>

Init ==
    /\ isDev \in BOOLEAN
    /\ hasWindow \in BOOLEAN
    /\ constructed = [i \in Inst |-> FALSE]
    /\ initialized = [i \in Inst |-> FALSE]
    /\ inits = <<>>
    /\ logs = <<>>
    /\ requests = <<>>

Started == Len(inits) + Len(logs)

Line(channel, text) == [channel |-> channel, text |-> text]

\* --------------------------------------------------------------------- init
\* if (this.initialized) return;
initSkipsM(i) == FALSE
initSkips(i) == initialized[i]

\* if (typeof window === "undefined") return;
noWindowNever == FALSE
noWindowAlways == TRUE
noWindow == ~hasWindow

\* The synchronous part of init(), up to the await of invoke("init_logger_cmd").
initStart(i) ==
    IF initSkips(i) \/ noWindow
    THEN /\ inits' = Append(inits, [inst |-> i, pc |-> "done", issued |-> FALSE,
                                    resp |-> "none", console |-> <<>>, raised |-> FALSE])
         /\ UNCHANGED requests
    ELSE /\ inits' = Append(inits, [inst |-> i, pc |-> "awaitInvoke", issued |-> TRUE,
                                    resp |-> "none", console |-> <<>>, raised |-> FALSE])
         /\ requests' = Append(requests, [cmd |-> "init_logger_cmd", inst |-> i])

\* What init() does when its invoke settles with r: the lines after the await
\* on success, the catch block on a rejection or a thrown error.
initSettleM(r) ==
    [flag |-> TRUE, console |-> <<Line("log", <<"Logger initialized successfully">>)>>,
     raised |-> FALSE]
initSettle(r) ==
    IF r = "ok"
    THEN [flag |-> TRUE, console |-> <<Line("log", <<"Logger initialized successfully">>)>>,
          raised |-> FALSE]
    ELSE [flag |-> FALSE, console |-> <<Line("error", <<"Failed to initialize logger:">>)>>,
          raised |-> FALSE]

\* constructor() { void this.init(); }
Construct(i) ==
    /\ ~constructed[i]
    /\ \A j \in Inst : j < i => constructed[j]
    /\ Started < MaxOps
    /\ constructed' = [constructed EXCEPT ![i] = TRUE]
    /\ initStart(i)
    /\ UNCHANGED <<isDev, hasWindow, initialized, logs>>

\* init() invoked again on a constructed instance.
InitAgain(i) ==
    /\ constructed[i]
    /\ Started < MaxOps
    /\ initStart(i)
    /\ UNCHANGED <<isDev, hasWindow, constructed, initialized, logs>>

\* The backend answers the init_logger_cmd of invocation k and init() resumes.
InitAnswer(k, r) ==
    /\ inits[k].pc = "awaitInvoke"
    /\ LET out == initSettle(r)
       IN  /\ inits' = [inits EXCEPT ![k] = [@ EXCEPT !.pc = "done", !.resp = r,
                                                  !.console = @ \o out.console,
                                                  !.raised = out.raised]]
           /\ initialized' = IF out.flag
                             THEN [initialized EXCEPT ![inits[k].inst] = TRUE]
                             ELSE initialized
    /\ UNCHANGED <<isDev, hasWindow, constructed, logs, requests>>

\* -------------------------------------------------------- getCallerLocation
\* const callerFrame = stackframes[3];
CallerIndex == 3

LoggerServiceRef ==
    <<"webpack-internal:", "/", "/", "/", ".", "/", "lib", "/", "services", "/",
      "LoggerService.ts">>
Frame(fn, file, line) == [functionName |-> fn, fileName |-> file, lineNumber |-> line]

\* The source line of each public level method.
levelLine(level) ==
    CASE level = "info"  -> 113
      [] level = "warn"  -> 117
      [] level = "error" -> 121
      [] level = "debug" -> 125
      [] level = "trace" -> 129

\* The call stack at the call of StackTrace.get(): getCallerLocation was called
\* by log, log by the public level method, and that one by the application
\* function at `site`, itself called from an outer function.
CallStack(level, site) ==
    <<Frame("getCallerLocation", LoggerServiceRef, 45),
      Frame("log", LoggerServiceRef, 85),
      Frame(level, LoggerServiceRef, levelLine(level)),
      Frame("caller", site.fileName, site.lineNumber),
      Frame("outer", PlainRef, 7)>>

\* private isDev = process.env.NODE_ENV === "development": the field this.isDev.
thisIsDevM == TRUE
thisIsDev == isDev

\* if (!this.isDev && from) return from;
prodShortCircuit(from) == ~thisIsDev /\ Truthy(from)

\* if (this.isDev) { ... await StackTrace.get() ... }
introspectsAlways(from) == TRUE
introspects(from) == thisIsDev

\* return from || "unknown";
fromOrUnknownM(from) == Unknown
fromOrUnknown(from) == IF Truthy(from) THEN from[1] ELSE Unknown

\* `${fileName}:${line}` of the caller frame, the file name normalized.
frameLocation(frame) ==
    LET fileName == IF frame.fileName = NoFileName THEN Unknown ELSE frame.fileName
        line == IF frame.lineNumber = 0 THEN <<"?">> ELSE Dec(frame.lineNumber)
    IN  NormalizeFileName(fileName) \o <<":">> \o line

\* The frame getCallerLocation reads: stackframes[3], undefined when absent.
callerFrameOfM(frames) == IF Len(frames) > 2 THEN <<frames[3]>> ELSE <<>>
callerFrameOf(frames) ==
    IF Len(frames) > CallerIndex THEN <<frames[CallerIndex + 1]>> ELSE <<>>

\* getCallerLocation after StackTrace.get() has settled: threw tells whether it
\* threw (or rejected), frames is what it returned otherwise.
resolveFromStack(from, threw, frames) ==
    IF threw
    THEN [location |-> fromOrUnknown(from),
          console |-> <<Line("warn", <<"Failed to resolve stack trace:">>)>>,
          raised |-> FALSE]
    ELSE IF callerFrameOf(frames) # <<>>
         THEN [location |-> frameLocation(callerFrameOf(frames)[1]), console |-> <<>>,
               raised |-> FALSE]
         ELSE [location |-> fromOrUnknown(from), console |-> <<>>, raised |-> FALSE]

\* ---------------------------------------------------------------------- log
\* console_map[level] || console.log, then the call custom_console(text).
\* console_map is an object literal, so a key it does not define itself is
\* looked up on Object.prototype: "toString" finds a function that returns
\* without writing to the console ("none"), "__proto__" finds an object, and
\* calling it throws a TypeError; any other string finds nothing and falls
\* back to console.log.
InheritedSilent == {"toString"}
InheritedNotCallable == {"__proto__"}
consoleChannel(level) ==
    IF level \in {"log", "info", "warn", "error", "debug", "trace"} THEN level
    ELSE IF level \in InheritedSilent THEN "none"
    ELSE IF level \in InheritedNotCallable THEN "TypeError"
    ELSE "log"

\* `[${level.toUpperCase()}] ${prefix} ${message}` with prefix = from ? `[${from}]` : ""
consoleTextM(level, message, from) ==
    <<"[", toUpperCase(level), "]", " ">> \o message
consoleText(level, message, from) ==
    <<"[", toUpperCase(level), "]", " ">>
        \o (IF Truthy(from) THEN <<"[">> \o from[1] \o <<"]">> ELSE <<>>)
        \o <<" ">> \o message

\* What log() does when its invoke settles with r: nothing more on success,
\* the catch block on a rejection or a thrown error; then log() returns.
logSettleRetry(r) ==
    IF r = "ok"
    THEN [pc |-> "done", console |-> <<>>, raised |-> FALSE]
    ELSE [pc |-> "located",
          console |-> <<Line("error", <<"Failed to send log to backend:">>)>>,
          raised |-> FALSE]
logSettleThrow(r) ==
    IF r = "ok"
    THEN [pc |-> "done", console |-> <<>>, raised |-> FALSE]
    ELSE [pc |-> "done", console |-> <<>>, raised |-> TRUE]
logSettle(r) ==
    IF r = "ok"
    THEN [pc |-> "done", console |-> <<>>, raised |-> FALSE]
    ELSE [pc |-> "done",
          console |-> <<Line("error", <<"Failed to send log to backend:">>)>>,
          raised |-> FALSE]

\* A public level method (info, warn, error, debug, trace) is called on
\* instance i from `site`: log() starts and runs getCallerLocation up to its
\* first suspension.  steps lists, in program order, what the call has done:
\* "located" (getCallerLocation returned), "console" (custom_console called),
\* "invoke" (log_frontend_message issued), "settled" (the invoke settled).
StartLog(i, level, message, from, site) ==
    /\ constructed[i]
    /\ Started < MaxOps
    /\ LET call == [inst |-> i, level |-> level, message |-> message, from |-> from,
                    site |-> site, threw |-> FALSE, frames |-> <<>>, console |-> <<>>,
                    sent |-> <<>>, resp |-> "none", raised |-> FALSE]
       IN  logs' = Append(logs,
              IF prodShortCircuit(from)
              THEN call @@ [pc |-> "located", stackCalls |-> 0, location |-> from[1],
                            steps |-> <<"located">>]
              ELSE IF introspects(from)
                   THEN call @@ [pc |-> "getStack", stackCalls |-> 1, location |-> <<>>,
                                 steps |-> <<>>]
                   ELSE call @@ [pc |-> "located", stackCalls |-> 0,
                                 location |-> fromOrUnknown(from),
                                 steps |-> <<"located">>])
    /\ UNCHANGED <<isDev, hasWindow, constructed, initialized, inits, requests>>

\* StackTrace.get() of log call k settles and getCallerLocation returns.
StackSettles(k, threw, frames) ==
    /\ logs[k].pc = "getStack"
    /\ LET out == resolveFromStack(logs[k].from, threw, frames)
       IN  logs' = [logs EXCEPT ![k] = [@ EXCEPT !.pc = "located", !.threw = threw,
                                                !.frames = frames,
                                                !.location = out.location,
                                                !.console = @ \o out.console,
                                                !.raised = out.raised,
                                                !.steps = Append(@, "located")]]
    /\ UNCHANGED <<isDev, hasWindow, constructed, initialized, inits, requests>>

\* log() of call k resumes as soon as its location is there: nothing of another
\* call (no lock, no queue) and nothing of init() is waited for.
canResumeAfterOthers(k) ==
    logs[k].pc = "located" /\ \A j \in 1..Len(logs) : j < k => logs[j].pc = "done"
canResumeInitialized(k) == logs[k].pc = "located" /\ initialized[logs[k].inst]
canResume(k) == logs[k].pc = "located"

\* The order of the two statements of log() that follow the location: the
\* console call (line 99), then the invoke (line 102).
resumeOrderM == <<"invoke", "console">>
resumeOrder == <<"console", "invoke">>

\* log() of call k resumes with the location: it writes the console line and
\* issues invoke("log_frontend_message", {level, message, location}).  When the
\* console call throws, log() ends there and the error reaches the caller.
LogResume(k) ==
    /\ canResume(k)
    /\ LET c == logs[k]
           ch == consoleChannel(c.level)
           rec == [level |-> c.level, message |-> c.message, location |-> c.location]
       IN  IF ch = "TypeError"
           THEN /\ logs' = [logs EXCEPT ![k] = [@ EXCEPT !.pc = "done", !.raised = TRUE]]
                /\ UNCHANGED requests
           ELSE /\ logs' = [logs EXCEPT ![k] =
                       [@ EXCEPT !.pc = "invoked",
                                 !.console =
                                     IF ch = "none" THEN @
                                     ELSE Append(@, Line(ch,
                                              consoleText(c.level, c.message, c.from))),
                                 !.sent = Append(@, rec),
                                 !.steps = @ \o resumeOrder]]
                /\ requests' = Append(requests,
                                      [cmd |-> "log_frontend_message", inst |-> c.inst])
    /\ UNCHANGED <<isDev, hasWindow, constructed, initialized, inits>>

\* The backend answers the log_frontend_message of call k and log() returns.
LogAnswer(k, r) ==
    /\ logs[k].pc = "invoked"
    /\ LET out == logSettle(r)
       IN  logs' = [logs EXCEPT ![k] = [@ EXCEPT !.pc = out.pc, !.resp = r,
                                                !.console = @ \o out.console,
                                                !.raised = out.raised,
                                                !.steps = Append(@, "settled")]]
    /\ UNCHANGED <<isDev, hasWindow, constructed, initialized, inits, requests>>

\* ----------------------------------------------------------- specifications
Truncated(stack, depths) == {SubSeq(stack, 1, d) : d \in depths \cap (0..Len(stack))}

DoConstruct == \E i \in Inst : Construct(i)
DoInitAgain == \E i \in Inst : InitAgain(i)
DoInitAnswer == \E k \in 1..Len(inits), r \in Answers : InitAnswer(k, r)
DoLogResume == \E k \in 1..Len(logs) : LogResume(k)
DoLogAnswer == \E k \in 1..Len(logs), r \in Answers : LogAnswer(k, r)

\* Several calls in flight, few input values.
CallFew ==
    \E i \in Inst, level \in FewLevels, message \in FewMessages, from \in FewLabels,
       site \in (IF isDev THEN FewSites ELSE {NoSite}) :
        StartLog(i, level, message, from, site)
StackThrowsFew == \E k \in 1..Len(logs) : StackSettles(k, TRUE, <<>>)
StackReturnsFew ==
    \E k \in 1..Len(logs) :
        \E frames \in Truncated(CallStack(logs[k].level, logs[k].site), FewDepths) :
            StackSettles(k, FALSE, frames)

Next ==
    \/ DoConstruct
    \/ DoInitAgain
    \/ DoInitAnswer
    \/ CallFew
    \/ StackThrowsFew
    \/ StackReturnsFew
    \/ DoLogResume
    \/ DoLogAnswer

Spec == Init /\ [][Next]_vars

\* One facade, one log call, every input value.
ConstructOne == (\A i \in Inst : ~constructed[i]) /\ Construct(1)
CallOne ==
    /\ logs = <<>>
    /\ \E level \in Levels, message \in AllMessages, from \in AllLabels,
          site \in (IF isDev THEN AllSites ELSE {NoSite}) :
           StartLog(1, level, message, from, site)
StackThrowsOne == \E k \in 1..Len(logs) : StackSettles(k, TRUE, <<>>)
StackReturnsOne ==
    \E k \in 1..Len(logs) :
        \E frames \in Truncated(CallStack(logs[k].level, logs[k].site), AllDepths) :
            StackSettles(k, FALSE, frames)

NextLog ==
    \/ ConstructOne
    \/ DoInitAnswer
    \/ CallOne
    \/ StackThrowsOne
    \/ StackReturnsOne
    \/ DoLogResume
    \/ DoLogAnswer

SpecLog == Init /\ [][NextLog]_vars

\* Initializer runs in sequence: init() is invoked again on an instance only
\* when every earlier invocation on that instance has finished.
NoInitPending(i) == \A k \in 1..Len(inits) : inits[k].inst = i => inits[k].pc = "done"
InitAgainInSequence == \E i \in Inst : NoInitPending(i) /\ InitAgain(i)

NextSeq ==
    \/ DoConstruct
    \/ InitAgainInSequence
    \/ DoInitAnswer

SpecSeq == Init /\ [][NextSeq]_vars

\* One facade and one call of the dispatcher log(level, message, from) itself,
\* with level strings inside and outside the five severities.
DispatchLevels == Levels \cup {"log", "verbose", "toString", "__proto__"}

\* The call stack when log() is called directly: no public level method frame.
DirectStack(site) ==
    <<Frame("getCallerLocation", LoggerServiceRef, 45),
      Frame("log", LoggerServiceRef, 85),
      Frame("caller", site.fileName, site.lineNumber),
      Frame("outer", PlainRef, 7)>>

CallDirect ==
    /\ logs = <<>>
    /\ \E level \in DispatchLevels, message \in FewMessages, from \in FewLabels,
          site \in (IF isDev THEN FewSites ELSE {NoSite}) :
           StartLog(1, level, message, from, site)
StackReturnsDirect ==
    \E k \in 1..Len(logs) :
        \E frames \in Truncated(DirectStack(logs[k].site), AllDepths) :
            StackSettles(k, FALSE, frames)

NextDispatch ==
    \/ ConstructOne
    \/ DoInitAnswer
    \/ CallDirect
    \/ StackThrowsOne
    \/ StackReturnsDirect
    \/ DoLogResume
    \/ DoLogAnswer

SpecDispatch == Init /\ [][NextDispatch]_vars

\* ------------------------------------------------------------------- claims
InitCmds(i) ==
    Cardinality({n \in 1..Len(requests) :
                    requests[n].cmd = "init_logger_cmd" /\ requests[n].inst = i})
LogCmds ==
    Cardinality({n \in 1..Len(requests) : requests[n].cmd = "log_frontend_message"})
InitInvocations(i) == Cardinality({k \in 1..Len(inits) : inits[k].inst = i})

\* C1 as stated: in one process the init_logger_cmd command is issued to the
\* backend at most once, whatever constructions, init invocations and log
\* calls happen.
C1_InitCmdAtMostOncePerProcess ==
    Cardinality({n \in 1..Len(requests) : requests[n].cmd = "init_logger_cmd"}) <= 1

\* C1 amended: an init invocation issues init_logger_cmd at most once, and only
\* when it finds the initialized flag of its instance false; once the flag of
\* an instance is true no further init_logger_cmd is issued for that instance.
C1_InitCmdOnlyWhileUninitialized ==
    [][\A i \in Inst :
          /\ initialized[i] => InitCmds(i)' = InitCmds(i)
          /\ InitCmds(i)' - InitCmds(i) <= InitInvocations(i)' - InitInvocations(i)
          /\ InitInvocations(i)' - InitInvocations(i) <= 1]_vars

\* An init invocation that found the flag true has returned without a request.
C1_Witness ==
    \E k \in 1..Len(inits) :
        /\ hasWindow
        /\ inits[k].pc = "done" /\ ~inits[k].issued
        /\ initialized[inits[k].inst]
        /\ InitCmds(inits[k].inst) = 1

\* C2: the initialized flag starts false, becomes true only in the step in
\* which an init invocation of the instance resumes from an init_logger_cmd
\* that returned successfully, and never goes back to false; an init whose
\* init_logger_cmd fails leaves the flag as it was and raises nothing.
C2_FlagLifecycle ==
    /\ \A i \in Inst : ~initialized[i]
    /\ [][\A i \in Inst :
             /\ initialized[i] => initialized'[i]
             /\ (~initialized[i] /\ initialized'[i]) =>
                    \E k \in 1..Len(inits) :
                        /\ inits[k].inst = i /\ inits[k].issued
                        /\ inits[k].pc = "awaitInvoke"
                        /\ inits'[k].pc = "done" /\ inits'[k].resp = "ok"]_vars
    /\ [][\A k \in 1..Len(inits) :
             (inits[k].pc = "awaitInvoke" /\ inits'[k].pc = "done"
                 /\ inits'[k].resp # "ok") =>
                    (initialized' = initialized /\ ~inits'[k].raised)]_vars
    /\ [](\A k \in 1..Len(inits) : ~inits[k].raised)

\* One init succeeded and set its flag, another failed and left its flag false.
C2_Witness ==
    \E k1, k2 \in 1..Len(inits) :
        /\ inits[k1].pc = "done" /\ inits[k1].resp = "ok" /\ initialized[inits[k1].inst]
        /\ inits[k2].pc = "done" /\ inits[k2].resp \in {"reject", "throw"}
        /\ ~initialized[inits[k2].inst] /\ ~inits[k2].raised

\* C3: no public level method ends in an error reaching its caller, whatever
\* the build mode, the label, and the outcomes of initialization, of stack
\* introspection and of log_frontend_message.
C3_NoErrorReachesCaller ==
    \A k \in 1..Len(logs) : ~logs[k].raised

\* A call completed although introspection threw, the submission threw and
\* the initialization was rejected.
C3_Witness ==
    /\ Len(inits) = 1 /\ inits[1].resp = "reject"
    /\ \E k \in 1..Len(logs) :
           /\ logs[k].pc = "done" /\ logs[k].threw /\ logs[k].resp = "throw"
           /\ ~logs[k].raised

\* C4: a log call issues log_frontend_message exactly once, at its submission
\* step, and never again (no retry, no stored record): the requests issued are
\* as many as the log calls that reached the submission step.
C4_SubmittedExactlyOnce ==
    /\ \A k \in 1..Len(logs) :
           Len(logs[k].sent) = (IF logs[k].pc \in {"invoked", "done"} THEN 1 ELSE 0)
    /\ LogCmds = Cardinality({k \in 1..Len(logs) : logs[k].pc \in {"invoked", "done"}})

\* One call's submission failed and the call is over, one was submitted since.
C4_Witness ==
    \E k1, k2 \in 1..Len(logs) :
        /\ k1 # k2
        /\ logs[k1].pc = "done" /\ logs[k1].resp = "reject"
        /\ logs[k2].pc = "invoked"
        /\ LogCmds = 2

\* The calls whose location came from the caller frame of the captured stack.
FromFrame(k) ==
    /\ logs[k].pc \in {"located", "invoked", "done"}
    /\ logs[k].stackCalls = 1 /\ ~logs[k].threw
    /\ Len(logs[k].frames) > CallerIndex
\* The calls whose introspection failed: it threw, or the stack is too short.
StackFailed(k) ==
    /\ logs[k].pc \in {"located", "invoked", "done"}
    /\ logs[k].stackCalls = 1
    /\ logs[k].threw \/ Len(logs[k].frames) <= CallerIndex
LineText(n) == IF n = 0 THEN <<"?">> ELSE <<"1", "2">>

\* C5: in production mode a call with an explicit (non-empty) label gets
\* exactly that label as its location, and the stack introspection provider
\* is invoked zero times during the call.
C5_ProductionShortCircuit ==
    ~isDev =>
        \A k \in 1..Len(logs) :
            Truthy(logs[k].from) =>
                /\ logs[k].location = logs[k].from[1]
                /\ logs[k].stackCalls = 0
                /\ logs[k].frames = <<>> /\ ~logs[k].threw
                /\ logs[k].from = Some(FooTs12) => logs[k].location = <<"foo.ts:12">>

\* A production call with the label "foo.ts:12" is over.
C5_Witness ==
    /\ ~isDev
    /\ \E k \in 1..Len(logs) :
           /\ logs[k].pc = "done" /\ logs[k].from = Some(FooTs12)
           /\ logs[k].location = FooTs12 /\ logs[k].stackCalls = 0

\* C6: when stack introspection throws, or returns fewer frames than the
\* caller depth needs, the location is the explicit label when one was given
\* (a non-empty one) and "unknown" otherwise, and nothing is raised.
C6_FallbackLocation ==
    \A k \in 1..Len(logs) :
        StackFailed(k) =>
            /\ ~logs[k].raised
            /\ logs[k].from = Undefined => logs[k].location = <<"unknown">>
            /\ logs[k].from = Some(EmptyString) => logs[k].location = <<"unknown">>
            /\ logs[k].from = Some(FooTs12) => logs[k].location = <<"foo.ts:12">>
            /\ logs[k].from = Some(ProfileForm) => logs[k].location = <<"profile-form">>

\* Introspection threw for a call labelled "foo.ts:12", which kept its label.
C6_Witness ==
    \E k \in 1..Len(logs) :
        /\ StackFailed(k) /\ logs[k].threw
        /\ logs[k].from = Some(FooTs12) /\ logs[k].location = FooTs12

\* The suffix of s that starts at the FIRST known directory between separators.
FirstRootRelative(s) ==
    IF DirStarts(s) = {} THEN s
    ELSE SubSeq(s, (CHOOSE m \in DirStarts(s) : \A k \in DirStarts(s) : m <= k) + 1, Len(s))

\* C7: the normalized file keeps the suffix that starts at the first known
\* top-level directory, also when a later segment is a known directory name:
\* file:///home/user/project/src/hooks/useAuth.ts gives src/hooks/useAuth.ts.
C7_SuffixFromFirstKnownDirectory ==
    \A k \in 1..Len(logs) :
        (FromFrame(k) /\ logs[k].site.fileName # NoFileName) =>
            /\ logs[k].location =
                  FirstRootRelative(UrlStep(CleanPrefixes(logs[k].site.fileName)))
                      \o <<":">> \o LineText(logs[k].site.lineNumber)
            /\ logs[k].site.fileName = UseAuthRef =>
                  logs[k].location = <<"src", "/", "hooks", "/", "useAuth.ts", ":">>
                                         \o LineText(logs[k].site.lineNumber)

\* C8: the rewrites run in the order prefix strip, URL path with the chunks
\* prefix stripped, known-directory suffix:
\* webpack-internal:///./components/Button.tsx gives components/Button.tsx,
\* https://app.example/_next/static/chunks/app/page.js gives app/page.js, and
\* https://cdn.example/vendor/react.js gives its URL path /vendor/react.js.
C8_NormalizationTable ==
    \A k \in 1..Len(logs) :
        FromFrame(k) =>
            LET file == logs[k].site.fileName
                line == <<":">> \o LineText(logs[k].site.lineNumber)
            IN  /\ file = ButtonRef =>
                      logs[k].location = <<"components", "/", "Button.tsx">> \o line
                /\ file = PageRef =>
                      logs[k].location = <<"app", "/", "page.js">> \o line
                /\ file = ReactRef =>
                      logs[k].location = <<"/", "vendor", "/", "react.js">> \o line
                /\ file = ReactRef =>
                      /\ CleanPrefixes(file) = file
                      /\ RootRelative(<<"/", "vendor", "/", "react.js">>)
                             = <<"/", "vendor", "/", "react.js">>

\* A call from https://cdn.example/vendor/react.js has got its location.
C8_Witness ==
    \E k \in 1..Len(logs) :
        /\ FromFrame(k) /\ logs[k].site.fileName = ReactRef
        /\ logs[k].site.lineNumber = 12
        /\ logs[k].location = <<"/", "vendor", "/", "react.js", ":", "1", "2">>

\* C9: in development mode every call invokes stack introspection once,
\* labelled or not; when the frame at the caller depth exists, it is the frame
\* of the function that called the public level method, and the location is
\* "<normalized file>:<line>" of that frame ("?" without a line number), never
\* the supplied label.
C9_DevelopmentUsesCallerFrame ==
    isDev =>
        \A k \in 1..Len(logs) :
            /\ logs[k].stackCalls = 1
            /\ FromFrame(k) =>
                  /\ logs[k].frames[CallerIndex + 1].functionName = "caller"
                  /\ logs[k].frames[CallerIndex].functionName = logs[k].level
                  /\ logs[k].location =
                        NormalizeFileName(IF logs[k].site.fileName = NoFileName
                                          THEN <<"unknown">> ELSE logs[k].site.fileName)
                            \o <<":">> \o LineText(logs[k].site.lineNumber)
                  /\ Truthy(logs[k].from) => logs[k].location # logs[k].from[1]

\* A labelled development call was located from its caller's frame, which has
\* no line number.
C9_Witness ==
    /\ isDev
    /\ \E k \in 1..Len(logs) :
           /\ FromFrame(k) /\ logs[k].from = Some(ProfileForm)
           /\ logs[k].site = [fileName |-> WindowsRef, lineNumber |-> 0]
           /\ logs[k].location = <<"src", "\\", "main.ts", ":", "?">>

\* C10: in production mode a call L(m, f) with a non-empty label f writes the
\* console line "[<L in upper case>] [f] m" and submits the record
\* {level: L, message: m, location: f}; info("Saved", "profile-form") shows
\* "[INFO] [profile-form] Saved"; the call completes without raising also when
\* the backend is unreachable.
C10_ProductionEndToEnd ==
    ~isDev =>
        \A k \in 1..Len(logs) :
            (Truthy(logs[k].from) /\ logs[k].pc \in {"invoked", "done"}) =>
                /\ logs[k].console[1].text =
                      <<"[", toUpperCase(logs[k].level), "]", " ", "[">>
                          \o logs[k].from[1] \o <<"]", " ">> \o logs[k].message
                /\ logs[k].sent = <<[level |-> logs[k].level, message |-> logs[k].message,
                                     location |-> logs[k].from[1]]>>
                /\ ~logs[k].raised
                /\ (logs[k].level = "info" /\ logs[k].message = Saved
                        /\ logs[k].from = Some(ProfileForm)) =>
                      /\ logs[k].console[1].text =
                            <<"[", "INFO", "]", " ", "[", "profile-form", "]", " ", "Saved">>
                      /\ logs[k].sent = <<[level |-> "info", message |-> <<"Saved">>,
                                           location |-> <<"profile-form">>]>>

\* info("Saved", "profile-form") in production is over, the backend unreachable.
C10_Witness ==
    /\ ~isDev
    /\ \E k \in 1..Len(logs) :
           /\ logs[k].level = "info" /\ logs[k].message = Saved
           /\ logs[k].from = Some(ProfileForm)
           /\ logs[k].pc = "done" /\ logs[k].resp = "throw" /\ ~logs[k].raised

\* C11: without the browser-like global, init() returns without issuing
\* init_logger_cmd, without changing the initialized flag, without console
\* output and without raising.
C11_NoWindowDefersSilently ==
    ~hasWindow =>
        /\ \A k \in 1..Len(inits) :
               /\ inits[k].pc = "done" /\ ~inits[k].issued
               /\ inits[k].console = <<>> /\ ~inits[k].raised
        /\ \A i \in Inst : ~initialized[i] /\ InitCmds(i) = 0

\* Without the global, a facade was constructed and init() was invoked again.
C11_Witness ==
    /\ ~hasWindow
    /\ \E k1, k2 \in 1..Len(inits) :
           k1 < k2 /\ inits[k1].inst = inits[k2].inst /\ inits[k2].pc = "done"

SuccessLines(i) ==
    Cardinality({k \in 1..Len(inits) :
        /\ inits[k].inst = i
        /\ \E n \in 1..Len(inits[k].console) :
               inits[k].console[n].text = <<"Logger initialized successfully">>})
\* An earlier run of init() on the instance of run k succeeded.
AfterSuccess(k) ==
    \E j \in 1..Len(inits) :
        j < k /\ inits[j].inst = inits[k].inst /\ inits[j].resp = "ok"

\* C12: when the runs of init() on a facade follow one another (each starts
\* after the previous one finished), the console gets at most one success
\* confirmation, a failed run leaves the flag false and each run writes at
\* most one console line, no run raises, and a run that follows a successful
\* one issues no backend command, writes nothing and changes no state.
C12_SequentialInitIdempotent ==
    /\ \A i \in Inst :
           /\ SuccessLines(i) <= 1
           /\ initialized[i] <=> SuccessLines(i) = 1
    /\ \A k \in 1..Len(inits) :
           /\ ~inits[k].raised
           /\ Len(inits[k].console) <= 1
           /\ AfterSuccess(k) =>
                  /\ inits[k].pc = "done" /\ ~inits[k].issued
                  /\ inits[k].resp = "none" /\ inits[k].console = <<>>
    /\ \A i \in Inst :
           InitCmds(i) = Cardinality({k \in 1..Len(inits) :
                                         inits[k].inst = i /\ ~AfterSuccess(k)
                                             /\ hasWindow})

\* A facade was initialized by its first run and init() has run on it again.
C12_Witness ==
    \E k1, k2 \in 1..Len(inits) :
        /\ k1 < k2 /\ inits[k1].inst = inits[k2].inst
        /\ inits[k1].resp = "ok" /\ inits[k2].pc = "done" /\ ~inits[k2].issued
        /\ InitCmds(inits[k1].inst) = 1 /\ SuccessLines(inits[k1].inst) = 1

\* The console lines of log call k that carry its message: "[LEVEL] [from] message".
MessageLines(k) ==
    {n \in 1..Len(logs[k].console) :
        logs[k].console[n].text = consoleText(logs[k].level, logs[k].message, logs[k].from)}
Dispatched(k) == logs[k].pc \in {"invoked", "done"}

\* C13: the dispatcher sends trace, debug, info, warn and error to the console
\* channel of the same name and every other level string to the default
\* channel (console.log), never raising; each log call writes exactly one
\* console line with its message.
C13_LevelToConsoleChannel ==
    \A k \in 1..Len(logs) :
        /\ ~logs[k].raised
        /\ Dispatched(k) =>
               /\ Cardinality(MessageLines(k)) = 1
               /\ \A n \in MessageLines(k) :
                      logs[k].console[n].channel =
                          (IF logs[k].level \in Levels THEN logs[k].level ELSE "log")

IsPrefix(s, t) == Len(s) <= Len(t) /\ SubSeq(t, 1, Len(s)) = s
Has(s, x) == \E n \in 1..Len(s) : s[n] = x

\* C14: within one log call the location resolution finishes first, then the
\* console line is written, then log_frontend_message is issued; the console
\* line is there before the submission is attempted and whatever the answer
\* to the submission is (success, rejection, thrown error, or none).
C14_LocateThenConsoleThenSubmit ==
    \A k \in 1..Len(logs) :
        /\ IsPrefix(logs[k].steps, <<"located", "console", "invoke", "settled">>)
        /\ Has(logs[k].steps, "located") <=> logs[k].location # <<>>
        /\ Has(logs[k].steps, "console") <=> Cardinality(MessageLines(k)) = 1
        /\ Has(logs[k].steps, "invoke") <=> Len(logs[k].sent) = 1
        /\ Has(logs[k].steps, "settled") <=> logs[k].resp # "none"
        /\ Dispatched(k) => Cardinality(MessageLines(k)) = 1
        /\ logs[k].pc = "getStack" => logs[k].console = <<>> /\ logs[k].sent = <<>>

\* A development call whose submission was rejected has its console line.
C14_Witness ==
    \E k \in 1..Len(logs) :
        /\ logs[k].pc = "done" /\ logs[k].resp = "reject"
        /\ logs[k].steps = <<"located", "console", "invoke", "settled">>
        /\ Cardinality(MessageLines(k)) = 1 /\ logs[k].stackCalls = 1

\* Run k of init() has read the flag (line 14) and has not yet come back from
\* its await (line 28), after which alone it writes the flag (line 29).
BetweenReadAndWrite(k) == inits[k].pc = "awaitInvoke"

\* C15 as stated: init() reads and writes the initialized flag within one
\* uninterrupted step, so that no other init() invocation runs between the
\* read and the write: no run passes the guard while an earlier run on the
\* same instance is between its read and its write.
C15_ReadAndWriteInOneStep ==
    \A k1, k2 \in 1..Len(inits) :
        (k1 < k2 /\ inits[k1].inst = inits[k2].inst /\ BetweenReadAndWrite(k1))
            => ~inits[k2].issued

\* C15 amended: init() reads the flag in its first step, before it suspends at
\* invoke, and writes it in a later step, the one that resumes from an
\* init_logger_cmd that returned successfully; the step that reads never
\* writes, and the step that writes starts no invocation.
C15_ReadThenWriteAfterAwait ==
    [][/\ Len(inits') > Len(inits) =>
              /\ initialized' = initialized
              /\ inits'[Len(inits')].issued => ~initialized[inits'[Len(inits')].inst]
              /\ inits'[Len(inits')].issued <=> inits'[Len(inits')].pc = "awaitInvoke"
       /\ initialized' # initialized =>
              /\ Len(inits') = Len(inits)
              /\ \E k \in 1..Len(inits) :
                     /\ BetweenReadAndWrite(k) /\ inits'[k].resp = "ok"
                     /\ initialized' = [initialized EXCEPT ![inits[k].inst] = TRUE]]_vars

\* A second run of init() went past the guard and issued its own request
\* between the read and the write of the first run, which then set the flag.
C15_Witness ==
    \E k1, k2 \in 1..Len(inits) :
        /\ k1 < k2 /\ inits[k1].inst = inits[k2].inst
        /\ inits[k1].resp = "ok" /\ initialized[inits[k1].inst]
        /\ inits[k2].issued /\ BetweenReadAndWrite(k2)
        /\ InitCmds(inits[k1].inst) = 2

\* The next step of log call k can be taken now.
CanProceed(k) ==
    /\ logs[k].pc = "getStack" => ENABLED StackSettles(k, TRUE, <<>>)
    /\ logs[k].pc = "located" => ENABLED LogResume(k)
    /\ logs[k].pc = "invoked" => ENABLED LogAnswer(k, "ok")

\* C16: log calls are independent: whatever the state of the other calls, also
\* of calls whose log_frontend_message was never answered, the next step of a
\* log call can be taken (location, console line and own request), and having
\* reached its submission it has its console line and exactly its own request.
C16_LogCallsIndependent ==
    \A k \in 1..Len(logs) :
        /\ CanProceed(k)
        /\ Dispatched(k) => Cardinality(MessageLines(k)) = 1 /\ Len(logs[k].sent) = 1

\* The first call's request is still unanswered; a call started after it has
\* been located, written to the console, submitted and completed.
C16_Witness ==
    \E k1, k2 \in 1..Len(logs) :
        /\ k1 < k2
        /\ logs[k1].pc = "invoked" /\ logs[k1].resp = "none"
        /\ logs[k2].pc = "done" /\ logs[k2].resp = "ok"
        /\ Cardinality(MessageLines(k2)) = 1 /\ LogCmds = 2

\* C17: a log call does not depend on the initialized flag: while the flag of
\* its facade is false the call can still resume, and having reached its
\* submission it has its console line and its request; no log call changes the
\* flag, which is true only when an init() of that facade has succeeded.
C17_LogIgnoresInitializedFlag ==
    /\ \A k \in 1..Len(logs) :
           ~initialized[logs[k].inst] =>
               /\ logs[k].pc = "located" => ENABLED LogResume(k)
               /\ Dispatched(k) =>
                      /\ Cardinality(MessageLines(k)) = 1
                      /\ logs[k].sent = <<[level |-> logs[k].level,
                                           message |-> logs[k].message,
                                           location |-> logs[k].location]>>
    /\ \A i \in Inst :
           initialized[i] <=>
               \E j \in 1..Len(inits) : inits[j].inst = i /\ inits[j].resp = "ok"

\* The initialization failed and a log call has been submitted and completed.
C17_Witness ==
    \E k \in 1..Len(logs), j \in 1..Len(inits) :
        /\ inits[j].inst = logs[k].inst /\ inits[j].resp = "reject"
        /\ ~initialized[logs[k].inst]
        /\ logs[k].pc = "done" /\ Len(logs[k].sent) = 1
        /\ Cardinality(MessageLines(k)) = 1

\* C18: for a facade constructed where the browser-like global exists, the
\* init_logger_cmd request of the facade is issued before any
\* log_frontend_message request of that facade, in every interleaving.
C18_InitRequestPrecedesLogRequests ==
    hasWindow =>
        \A n \in 1..Len(requests) :
            requests[n].cmd = "log_frontend_message" =>
                \E m \in 1..Len(requests) :
                    /\ m < n
                    /\ requests[m].cmd = "init_logger_cmd"
                    /\ requests[m].inst = requests[n].inst

\* A log request was issued while the init request of the facade, issued
\* before it, is still unanswered.
C18_Witness ==
    /\ hasWindow
    /\ \E n \in 1..Len(requests), j \in 1..Len(inits) :
           /\ requests[n].cmd = "log_frontend_message"
           /\ inits[j].inst = requests[n].inst /\ inits[j].pc = "awaitInvoke"
           /\ requests[1].cmd = "init_logger_cmd"

====
